---- MODULE Spec2Model ----
(***************************************************************************)
(* MarkItDown API (app/app.py): the upload / convert / download / delete   *)
(* handlers over the two directories /app/uploads and /app/converted.      *)
(*                                                                         *)
(* A string is a sequence of one-character strings, a path is a sequence   *)
(* of segments, the filesystem is a function from the absolute paths of    *)
(* regular files to their contents.  Handlers are plain `def` endpoints,   *)
(* which FastAPI runs on a thread pool: a handler is a sequence of steps,  *)
(* one per filesystem call, and steps of different requests interleave.    *)
(***************************************************************************)
EXTENDS Integers, Sequences, FiniteSets, TLC

VARIABLES
    files,    \* the regular files: absolute path |-> content
    h,        \* per worker thread, the request it serves or has answered:
              \* its inputs, its locals, its position (pc), its status code
              \* and the filesystem it found on arrival (pre)
    nreq,     \* number of requests received
    deleted,  \* paths removed by DELETE and not written since
    workers   \* number of worker threads that serve requests

vars == <<files, h, nreq, deleted, workers>>

----------------------------------------------------------------------------
(* Bounds *)

\* number of requests that can be in flight together (worker threads)
NumProcs == 2

\* number of requests served in one behaviour
MaxRequests == 2

----------------------------------------------------------------------------
(* Strings *)

SLASH == "/"

DOT == "."

DOTDOT == <<".", ".">>

MD == <<".", "m", "d">>

RECURSIVE rfind(_, _, _)
\* str.rfind(c) restricted to s[1..i]: the last position of c, 0 when absent
rfind(s, c, i) ==
    IF i = 0 THEN 0
    ELSE IF s[i] = c THEN i
    ELSE rfind(s, c, i - 1)

\* os.path.basename: everything after the last slash
basename(s) ==
    SubSeq(s, rfind(s, SLASH, Len(s)) + 1, Len(s))

RECURSIVE Split(_)
\* s.split("/")
Split(s) ==
    LET i == rfind(s, SLASH, Len(s))
    IN  IF i = 0 THEN <<s>>
        ELSE Append(Split(SubSeq(s, 1, i - 1)), SubSeq(s, i + 1, Len(s)))

RECURSIVE Parts(_)
\* pathlib's parsing of a relative or absolute string into parts: empty and
\* "." segments are dropped, ".." segments are kept
Parts(segs) ==
    IF segs = <<>> THEN <<>>
    ELSE IF Head(segs) = <<>> \/ Head(segs) = <<DOT>> THEN Parts(Tail(segs))
    ELSE <<Head(segs)>> \o Parts(Tail(segs))

\* PurePath(s).name
PathName(s) ==
    LET ps == Parts(Split(s))
    IN  IF ps = <<>> THEN <<>> ELSE ps[Len(ps)]

\* PurePath(s).stem (Python 3.11: a suffix starts at the last dot of the
\* name unless that dot is the first or the last character)
stem(s) ==
    LET name == PathName(s)
        i    == rfind(name, DOT, Len(name))
    IN  IF 1 < i /\ i < Len(name) THEN SubSeq(name, 1, i - 1) ELSE name

----------------------------------------------------------------------------
(* Paths and the filesystem *)

UPLOAD_DIR == << <<"a", "p", "p">>, <<"u", "p", "l", "o", "a", "d", "s">> >>

CONVERTED_DIR == << <<"a", "p", "p">>, <<"c", "o", "n", "v", "e", "r", "t", "e", "d">> >>

\* the directories that exist: /, /app and the two the module creates
Dirs == { <<>>, << <<"a", "p", "p">> >>, UPLOAD_DIR, CONVERTED_DIR }

\* the result of resolving a path one of whose directories does not exist
NoPath == << <<>> >>

\* pathlib's `dir / s`: an absolute s replaces dir
Join(dir, s) ==
    IF s # <<>> /\ s[1] = SLASH THEN Parts(Split(s))
    ELSE dir \o Parts(Split(s))

Parent(path) ==
    IF path = <<>> THEN <<>> ELSE SubSeq(path, 1, Len(path) - 1)

RECURSIVE Walk(_, _)
\* the kernel's path walk: every segment is looked up in a directory
Walk(cur, rest) ==
    IF rest = <<>> THEN cur
    ELSE IF cur \notin Dirs THEN NoPath
    ELSE IF Head(rest) = DOTDOT THEN Walk(Parent(cur), Tail(rest))
    ELSE Walk(Append(cur, Head(rest)), Tail(rest))

Resolve(path) == Walk(<<>>, path)

\* Path.is_file()
IsFile(fs, path) == Resolve(path) \in DOMAIN fs

\* Path.exists()
Exists(fs, path) == Resolve(path) \in Dirs \/ IsFile(fs, path)

\* open(path, 'w' / 'wb') succeeds: the target is not a directory and lies
\* in an existing one
CanOpenW(path) == Resolve(path) # NoPath /\ Resolve(path) \notin Dirs

\* the file created or truncated, then written, by open(path, 'w').write(c)
WriteFile(fs, path, c) ==
    [q \in DOMAIN fs \cup {Resolve(path)} |->
        IF q = Resolve(path) THEN c ELSE fs[q]]

\* an unlink that removes nothing
UnlinkNothing(fs, path) == fs

\* Path.unlink() of a regular file
Unlink(fs, path) ==
    [q \in DOMAIN fs \ {Resolve(path)} |-> fs[q]]

\* the regular files directly inside dir, by name
FilesIn(fs, dir) ==
    {q \in DOMAIN fs : q # <<>> /\ Parent(q) = dir}

EndsWith(s, t) ==
    Len(s) >= Len(t) /\ SubSeq(s, Len(s) - Len(t) + 1, Len(s)) = t

----------------------------------------------------------------------------
(* Inputs *)

Procs == 1..NumProcs

\* filenames a client can send: empty, plain, nested, parent directory
FileNames ==
    { <<>>,
      <<"a", ".", "t">>,
      <<"d", "/", "a", ".", "t">>,
      DOTDOT }

\* output_filename: absent (None or ""), plain, with a parent-directory marker
OutputNames ==
    { <<>>,
      <<"r">>,
      <<".", ".", "/", "r">> }

\* values of str(uuid.uuid4()), abbreviated after the first group; two of
\* them share their first eight characters
UuidPool ==
    { <<"0", "0", "0", "0", "0", "0", "0", "0", "-", "0">>,
      <<"0", "0", "0", "0", "0", "0", "0", "0", "-", "1">>,
      <<"0", "0", "0", "0", "0", "0", "0", "1", "-", "0">> }

\* uploaded bytes
Payloads == { <<1>>, <<2, 2>> }

\* Markdown text the converter can produce
Texts == { <<7>>, <<8, 8>> }

\* md_converter.convert(path): raises, returns nothing, or returns a result
\* whose text_content may be empty
NotCalled == [kind |-> "not_called", text_content |-> <<>>]

Raises == [kind |-> "raise", text_content |-> <<>>]

NoResult == [kind |-> "none", text_content |-> <<>>]

Result(t) == [kind |-> "result", text_content |-> t]

Outcomes == {Raises, NoResult, Result(<<>>)} \cup {Result(t) : t \in Texts}

\* the path parameter {filename} of /download and /delete matches one
\* segment: it never holds a slash
SegmentNames ==
    { <<"r">> \o MD,
      <<"a", "_", "0", "0", "0", "0", "0", "0", "0", "0">> \o MD,
      DOTDOT }

----------------------------------------------------------------------------
(* Requests *)

Idle ==
    [op |-> "none", pc |-> "idle", status |-> 0, pre |-> <<>>,
     file_name |-> <<>>, output_filename |-> <<>>, content |-> <<>>,
     unique_id |-> <<>>, result |-> NotCalled, md_filename |-> <<>>,
     path |-> <<>>, listing |-> {}]

\* the next request goes to the first worker that is not serving one
Free(p) ==
    /\ nreq < MaxRequests
    /\ p <= workers
    /\ h[p].pc \in {"idle", "done"}
    /\ \A q \in Procs : q < p => h[q].pc \notin {"idle", "done"}

\* the request as received: its number and the filesystem it found
Request(op) == [Idle EXCEPT !.op = op, !.pre = files]

\* worker p takes request r; the responses of the requests answered so far
\* are gone once a new request arrives
Accept(p, r) ==
    [q \in Procs |->
        IF q = p THEN r
        ELSE IF h[q].pc = "done" THEN Idle
        ELSE h[q]]

Respond(r, code) == [r EXCEPT !.pc = "done", !.status = code]

\* the directories are created with exist_ok: Converted may hold a file of
\* an earlier run
InitialFiles ==
    { <<>>,
      [q \in {Append(CONVERTED_DIR, <<"r">> \o MD)} |-> <<7>>] }

\* the server with its pool of worker threads
Init ==
    /\ files \in InitialFiles
    /\ h = [p \in Procs |-> Idle]
    /\ nreq = 0
    /\ deleted = {}
    /\ workers = NumProcs

\* the server with one worker thread: requests are served one after the other
InitSeq ==
    /\ files \in InitialFiles
    /\ h = [p \in Procs |-> Idle]
    /\ nreq = 0
    /\ deleted = {}
    /\ workers = 1

----------------------------------------------------------------------------
(* POST /upload *)

\* the existence check left out
UploadConflictNever(fs, path) == FALSE

\* `if file_path.exists()`: the name is taken
UploadConflict(fs, path) == Exists(fs, path)

upload_file(p, filename, content) ==
    /\ Free(p)
    /\ LET r == [Request("upload") EXCEPT !.file_name = filename,
                                           !.content = content,
                                           !.path = Join(UPLOAD_DIR, basename(filename))]
       IN  h' = Accept(p,
                    IF filename = <<>> THEN Respond([r EXCEPT !.path = <<>>], 400)
                    ELSE IF UploadConflict(files, r.path) THEN Respond(r, 409)
                    ELSE [r EXCEPT !.pc = "open"])
    /\ nreq' = nreq + 1
    /\ UNCHANGED <<files, deleted, workers>>

\* open(file_path, 'wb'): the file exists, empty, from here on
upload_open(p) ==
    /\ h[p].op = "upload" /\ h[p].pc = "open"
    /\ IF CanOpenW(h[p].path)
       THEN /\ files' = WriteFile(files, h[p].path, <<>>)
            /\ deleted' = deleted \ {Resolve(h[p].path)}
            /\ h' = [h EXCEPT ![p].pc = "write"]
       ELSE /\ h' = [h EXCEPT ![p] = Respond(@, 500)]
            /\ UNCHANGED <<files, deleted>>
    /\ UNCHANGED <<nreq, workers>>

\* f.write(content) and the close at the end of the with block
upload_write(p) ==
    /\ h[p].op = "upload" /\ h[p].pc = "write"
    /\ files' = WriteFile(files, h[p].path, h[p].content)
    /\ h' = [h EXCEPT ![p] = Respond(@, 200)]
    /\ UNCHANGED <<nreq, deleted, workers>>

\* GET /list-uploads: the regular files of Uploads with their sizes
list_uploaded_files(p) ==
    /\ Free(p)
    /\ h' = Accept(p, Respond(
                [Request("list_uploads") EXCEPT !.listing =
                    {[filename |-> q[Len(q)], size |-> Len(files[q])] :
                        q \in FilesIn(files, UPLOAD_DIR)}], 200))
    /\ nreq' = nreq + 1
    /\ UNCHANGED <<files, deleted, workers>>

----------------------------------------------------------------------------
(* POST /convert-by-filename and GET /convert-by-filename/{file_name} *)

\* a missing file answered like an invalid one
MissingStatusAs400(fs, path) == IF ~Exists(fs, path) THEN 400 ELSE 0

\* `if not input_file_path.exists()`: 404, else 0 to go on
MissingStatus(fs, path) == IF ~Exists(fs, path) THEN 404 ELSE 0

\* `if not input_file_path.is_file()`: 400, else 0 to go on
NotAFileStatus(fs, path) == IF ~IsFile(fs, path) THEN 400 ELSE 0

\* str(uuid.uuid4())[:8]
UniqueId(u) == SubSeq(u, 1, 8)

\* only the missing result and the exception are checked, not the text
ConversionFailedUnlessResult(outcome) == outcome.kind # "result"

\* `if not result or not result.text_content`, and any exception raised by
\* the converter: the attempt failed
ConversionFailed(outcome) ==
    outcome.kind # "result" \/ outcome.text_content = <<>>

\* `if output_filename: ... else: ...`
MdFilename(output_filename, original_name, unique_id) ==
    IF output_filename # <<>> THEN output_filename \o MD
    ELSE original_name \o <<"_">> \o unique_id \o MD

\* what the converter can do with the file at path: it raises when the file
\* is not there, otherwise its outcome is its own
ConverterOutcomes(fs, path) ==
    IF IsFile(fs, path) THEN Outcomes ELSE {Raises}

\* validation, sanitization and the existence check, the same in the two
\* handlers: the request as it stands after them
ByNameRequest(op, file_name, output_filename) ==
    LET r == [Request(op) EXCEPT !.file_name = file_name,
                                  !.output_filename = output_filename,
                                  !.path = Join(UPLOAD_DIR, basename(file_name))]
    IN  IF file_name = <<>> THEN Respond([r EXCEPT !.path = <<>>], 400)
        ELSE IF MissingStatus(files, r.path) # 0
             THEN Respond(r, MissingStatus(files, r.path))
        ELSE [r EXCEPT !.pc = "is_file"]

\* POST /convert-by-filename
convert_file_by_name(p, file_name, output_filename) ==
    /\ Free(p)
    /\ h' = Accept(p, ByNameRequest("convert_by_name", file_name, output_filename))
    /\ nreq' = nreq + 1
    /\ UNCHANGED <<files, deleted, workers>>

\* GET /convert-by-filename/{file_name}
convert_file_by_name_get(p, file_name, output_filename) ==
    /\ Free(p)
    /\ h' = Accept(p, ByNameRequest("convert_by_name_get", file_name, output_filename))
    /\ nreq' = nreq + 1
    /\ UNCHANGED <<files, deleted, workers>>

ByNameOps == {"convert_by_name", "convert_by_name_get"}

\* the is_file check and the token
by_name_is_file(p, u) ==
    /\ h[p].op \in ByNameOps /\ h[p].pc = "is_file"
    /\ h' = [h EXCEPT ![p] =
                IF NotAFileStatus(files, @.path) # 0
                THEN Respond(@, NotAFileStatus(files, @.path))
                ELSE [@ EXCEPT !.pc = "convert", !.unique_id = UniqueId(u)]]
    /\ UNCHANGED <<files, nreq, deleted, workers>>

\* md_converter.convert(str(input_file_path)) and the check of its result
by_name_convert(p, outcome) ==
    /\ h[p].op \in ByNameOps /\ h[p].pc = "convert"
    /\ outcome \in ConverterOutcomes(files, h[p].path)
    /\ h' = [h EXCEPT ![p] =
                IF ConversionFailed(outcome)
                THEN Respond([@ EXCEPT !.result = outcome], 422)
                ELSE [@ EXCEPT !.pc = "write_md", !.result = outcome]]
    /\ UNCHANGED <<files, nreq, deleted, workers>>

\* the output name and the write into Converted; a failing open is caught
\* by the outer `except Exception`
by_name_write_md(p) ==
    /\ h[p].op \in ByNameOps /\ h[p].pc = "write_md"
    /\ LET md_filename == MdFilename(h[p].output_filename,
                                     stem(basename(h[p].file_name)), h[p].unique_id)
           output_path == Join(CONVERTED_DIR, md_filename)
       IN  IF CanOpenW(output_path)
           THEN /\ files' = WriteFile(files, output_path, h[p].result.text_content)
                /\ deleted' = deleted \ {Resolve(output_path)}
                /\ h' = [h EXCEPT ![p] = Respond([@ EXCEPT !.md_filename = md_filename], 200)]
           ELSE /\ h' = [h EXCEPT ![p] = Respond([@ EXCEPT !.md_filename = md_filename], 500)]
                /\ UNCHANGED <<files, deleted>>
    /\ UNCHANGED <<nreq, workers>>

----------------------------------------------------------------------------
(* POST /convert *)

\* f"{unique_id}_{file.filename}" under UPLOAD_DIR
TempFilePath(unique_id, filename) ==
    Join(UPLOAD_DIR, unique_id \o <<"_">> \o filename)

\* lines 379-396: validation, the token, the temporary name and its open
convert_file(p, filename, output_filename, content, u) ==
    /\ Free(p)
    /\ LET r == [Request("convert") EXCEPT !.file_name = filename,
                                            !.output_filename = output_filename,
                                            !.content = content]
           t == [r EXCEPT !.unique_id = UniqueId(u),
                          !.path = TempFilePath(UniqueId(u), filename)]
       IN  IF filename = <<>>
           THEN /\ h' = Accept(p, Respond(r, 400))
                /\ UNCHANGED <<files, deleted>>
           ELSE IF CanOpenW(t.path)
           THEN /\ files' = WriteFile(files, t.path, <<>>)
                /\ deleted' = deleted \ {Resolve(t.path)}
                /\ h' = Accept(p, [t EXCEPT !.pc = "write_temp"])
           ELSE \* open raised: nothing was created, nothing to clean up
                /\ h' = Accept(p, Respond(t, 500))
                /\ UNCHANGED <<files, deleted>>
    /\ nreq' = nreq + 1
    /\ UNCHANGED workers

\* temp_file.write(content) and the close
convert_write_temp(p) ==
    /\ h[p].op = "convert" /\ h[p].pc = "write_temp"
    /\ files' = WriteFile(files, h[p].path, h[p].content)
    /\ h' = [h EXCEPT ![p].pc = "convert"]
    /\ UNCHANGED <<nreq, deleted, workers>>

\* where the handler goes after a failed conversion: the HTTPException(422)
\* passes through `except HTTPException: raise`, which cleans nothing up
AfterConversionFailed(r) == Respond(r, 422)

\* md_converter.convert(str(temp_file_path)); `result.text_content` of no
\* result raises inside the same try block
convert_convert(p, outcome) ==
    /\ h[p].op = "convert" /\ h[p].pc = "convert"
    /\ outcome \in ConverterOutcomes(files, h[p].path)
    /\ h' = [h EXCEPT ![p] =
                IF ConversionFailed(outcome)
                THEN AfterConversionFailed([@ EXCEPT !.result = outcome])
                ELSE [@ EXCEPT !.pc = "write_md", !.result = outcome]]
    /\ UNCHANGED <<files, nreq, deleted, workers>>

\* the output name and the write into Converted
convert_write_md(p) ==
    /\ h[p].op = "convert" /\ h[p].pc = "write_md"
    /\ LET md_filename == MdFilename(h[p].output_filename,
                                     stem(h[p].file_name), h[p].unique_id)
           output_path == Join(CONVERTED_DIR, md_filename)
       IN  IF CanOpenW(output_path)
           THEN /\ files' = WriteFile(files, output_path, h[p].result.text_content)
                /\ deleted' = deleted \ {Resolve(output_path)}
                /\ h' = [h EXCEPT ![p] = [@ EXCEPT !.md_filename = md_filename,
                                                   !.pc = "cleanup"]]
           ELSE /\ h' = [h EXCEPT ![p] = [@ EXCEPT !.md_filename = md_filename,
                                                   !.pc = "cleanup_error"]]
                /\ UNCHANGED <<files, deleted>>
    /\ UNCHANGED <<nreq, workers>>

\* `if temp_file_path and temp_file_path.exists(): temp_file_path.unlink()`,
\* on the success path (200) and in `except Exception` (500)
convert_cleanup(p) ==
    /\ h[p].op = "convert" /\ h[p].pc \in {"cleanup", "cleanup_error"}
    /\ files' = IF Exists(files, h[p].path) THEN Unlink(files, h[p].path) ELSE files
    /\ h' = [h EXCEPT ![p] = Respond(@, IF @.pc = "cleanup" THEN 200 ELSE 500)]
    /\ UNCHANGED <<nreq, deleted, workers>>

----------------------------------------------------------------------------
(* Converted: download, list, delete *)

\* GET /download/{filename}: 404 when nothing is at the path; FileResponse
\* serves a regular file and fails on anything else
download_converted_file(p, filename) ==
    /\ Free(p)
    /\ LET r == [Request("download") EXCEPT !.file_name = filename,
                                             !.path = Join(CONVERTED_DIR, filename)]
       IN  h' = Accept(p,
                    IF ~Exists(files, r.path) THEN Respond(r, 404)
                    ELSE IF IsFile(files, r.path)
                         THEN Respond([r EXCEPT !.content = files[Resolve(r.path)]], 200)
                    ELSE Respond(r, 500))
    /\ nreq' = nreq + 1
    /\ UNCHANGED <<files, deleted, workers>>

\* GET /list-converted: CONVERTED_DIR.glob("*.md")
list_converted_files(p) ==
    /\ Free(p)
    /\ h' = Accept(p, Respond(
                [Request("list_converted") EXCEPT !.listing =
                    {[filename |-> q[Len(q)], size |-> Len(files[q])] :
                        q \in {f \in FilesIn(files, CONVERTED_DIR) : EndsWith(f[Len(f)], MD)}}],
                200))
    /\ nreq' = nreq + 1
    /\ UNCHANGED <<files, deleted, workers>>

\* DELETE /delete/{filename}: the existence check
delete_converted_file(p, filename) ==
    /\ Free(p)
    /\ LET r == [Request("delete") EXCEPT !.file_name = filename,
                                           !.path = Join(CONVERTED_DIR, filename)]
       IN  h' = Accept(p,
                    IF ~Exists(files, r.path) THEN Respond(r, 404)
                    ELSE [r EXCEPT !.pc = "unlink"])
    /\ nreq' = nreq + 1
    /\ UNCHANGED <<files, deleted, workers>>

\* file_path.unlink(): raises when the path is a directory or is gone,
\* which `except Exception` turns into 500
delete_unlink(p) ==
    /\ h[p].op = "delete" /\ h[p].pc = "unlink"
    /\ IF IsFile(files, h[p].path)
       THEN /\ files' = Unlink(files, h[p].path)
            /\ deleted' = deleted \cup {Resolve(h[p].path)}
            /\ h' = [h EXCEPT ![p] = Respond(@, 200)]
       ELSE /\ h' = [h EXCEPT ![p] = Respond(@, 500)]
            /\ UNCHANGED <<files, deleted>>
    /\ UNCHANGED <<nreq, workers>>

----------------------------------------------------------------------------
(* Specifications *)

Next ==
    \E p \in Procs :
        \/ \E n \in FileNames, c \in Payloads : upload_file(p, n, c)
        \/ upload_open(p)
        \/ upload_write(p)
        \/ list_uploaded_files(p)
        \/ \E n \in FileNames, o \in OutputNames : convert_file_by_name(p, n, o)
        \/ \E n \in FileNames, o \in OutputNames : convert_file_by_name_get(p, n, o)
        \/ \E u \in UuidPool : by_name_is_file(p, u)
        \/ \E o \in Outcomes : by_name_convert(p, o)
        \/ by_name_write_md(p)
        \/ \E n \in FileNames, o \in OutputNames, c \in Payloads, u \in UuidPool :
               convert_file(p, n, o, c, u)
        \/ convert_write_temp(p)
        \/ \E o \in Outcomes : convert_convert(p, o)
        \/ convert_write_md(p)
        \/ convert_cleanup(p)
        \/ \E n \in SegmentNames : download_converted_file(p, n)
        \/ list_converted_files(p)
        \/ \E n \in SegmentNames : delete_converted_file(p, n)
        \/ delete_unlink(p)

\* requests served concurrently by the thread pool
Spec == Init /\ [][Next]_vars

\* requests served one after the other
SpecSeq == InitSeq /\ [][Next]_vars

----------------------------------------------------------------------------
(* Properties *)

Done(p) == h[p].pc = "done"

ConversionOps == ByNameOps \cup {"convert"}

\* the files directly inside dir with their contents
Directory(fs, dir) == [q \in FilesIn(fs, dir) |-> fs[q]]

\* the file called name directly inside dir
Entry(dir, name) == Append(dir, name)

\* fs with the file at q taken away, everything else as it is
Without(fs, q) == [x \in DOMAIN fs \ {q} |-> fs[x]]

\* the converter was called and produced no usable text
ConverterGaveNothing(r) ==
    \/ r.result.kind \in {"raise", "none"}
    \/ r.result.kind = "result" /\ r.result.text_content = <<>>

\* C1: once a POST /convert request that created its temporary file has
\* been answered (200, 422 or 500), the temporary file is no longer in
\* Uploads.
C1_TempFileRemoved ==
    \A p \in Procs :
        (Done(p) /\ h[p].op = "convert" /\ h[p].file_name # <<>>
                 /\ CanOpenW(h[p].path))
        => ~IsFile(files, h[p].path)

\* C2: every file created or deleted, whatever names the requests carried,
\* lies directly inside Uploads or Converted.
C2_FilesStayInside ==
    \A q \in DOMAIN files \cup deleted :
        q # <<>> /\ Parent(q) \in {UPLOAD_DIR, CONVERTED_DIR}

\* C3: an upload whose sanitized name is not yet in Uploads is answered 200
\* and stores exactly the request's bytes under that name; an upload whose
\* sanitized name is already there is answered 409 and leaves every file as
\* it was, whatever bytes it carries.
C3_UploadTwice ==
    \A p \in Procs :
        (Done(p) /\ h[p].op = "upload" /\ h[p].file_name # <<>>) =>
            LET name   == basename(h[p].file_name)
                target == Entry(UPLOAD_DIR, name)
            IN  /\ target \in DOMAIN h[p].pre =>
                    h[p].status = 409 /\ files = h[p].pre
                /\ ~Exists(h[p].pre, Join(UPLOAD_DIR, name)) =>
                    /\ h[p].status = 200
                    /\ target \in DOMAIN files
                    /\ files[target] = h[p].content
                    /\ Without(files, target) = h[p].pre

\* a second upload of a stored name, with other bytes, answered 409
C3_Witness ==
    \E p \in Procs :
        /\ Done(p) /\ h[p].op = "upload" /\ h[p].status = 409
        /\ LET target == Entry(UPLOAD_DIR, basename(h[p].file_name))
           IN  /\ target \in DOMAIN h[p].pre
               /\ h[p].pre[target] # h[p].content
               /\ files[target] = h[p].pre[target]

\* C4: a write into Uploads never replaces the content of a name that is
\* there: of the uploads of one sanitized name at most one is answered 200,
\* and the bytes stored by an upload answered 200 stay as they are.  (The
\* claim's last statement, on the temporary name of POST /convert, is not
\* needed to refute it: the temporary file is opened with 'wb' unchecked.)
C4_NoOverwrite ==
    /\ \A p, q \in Procs :
          (p # q /\ Done(p) /\ Done(q)
                 /\ h[p].op = "upload" /\ h[q].op = "upload"
                 /\ h[p].path = h[q].path /\ h[p].path # <<>>)
          => ~(h[p].status = 200 /\ h[q].status = 200)
    /\ \A p \in Procs :
          (Done(p) /\ h[p].op = "upload" /\ h[p].status = 200)
          => IsFile(files, h[p].path) /\ files[Resolve(h[p].path)] = h[p].content

\* C5: while an upload of a name is in progress, what a reader finds under
\* that name in Uploads is nothing, or the complete bytes of an upload of
\* that name, or the file that was there before.
C5_NoPartialFile ==
    \A p \in Procs :
        (h[p].op = "upload" /\ h[p].pc \in {"open", "write"}) =>
            LET target == Resolve(h[p].path)
            IN  \/ target \notin DOMAIN files
                \/ \E q \in Procs : /\ h[q].op = "upload"
                                    /\ Resolve(h[q].path) = target
                                    /\ files[target] = h[q].content
                \/ target \in DOMAIN h[p].pre /\ files[target] = h[p].pre[target]

\* C6: a conversion request whose converter raised, returned nothing or
\* returned empty text is answered 422, and Converted holds the same files
\* with the same contents as when the request arrived.
C6_FailedConversion ==
    \A p \in Procs :
        (Done(p) /\ h[p].op \in ConversionOps /\ ConverterGaveNothing(h[p])) =>
            /\ h[p].status = 422
            /\ Directory(files, CONVERTED_DIR) = Directory(h[p].pre, CONVERTED_DIR)

\* a filename-driven conversion of a stored file whose converter returned
\* empty text, with a file in Converted that stayed
C6_Witness ==
    \E p \in Procs :
        /\ Done(p) /\ h[p].op \in ByNameOps
        /\ h[p].result = Result(<<>>)
        /\ h[p].status = 422
        /\ IsFile(files, h[p].path)

\* C7 as claimed: a filename-driven conversion whose sanitized name is not
\* a regular file of Uploads (absent, or a directory) is answered 404, and
\* 400 answers only an empty file_name.
C7_NotFound ==
    \A p \in Procs :
        (Done(p) /\ h[p].op \in ByNameOps) =>
            LET input_file_path == Join(UPLOAD_DIR, basename(h[p].file_name))
            IN  /\ (h[p].file_name # <<>> /\ ~IsFile(h[p].pre, input_file_path))
                   => h[p].status = 404
                /\ h[p].status = 400 => h[p].file_name = <<>>

\* C7 as amended: an empty file_name is answered 400; a sanitized name under
\* which nothing exists in Uploads is answered 404; one that exists without
\* being a regular file is answered 400; and 400 and 404 answer nothing else.
C7_NotFoundOrNotAFile ==
    \A p \in Procs :
        (Done(p) /\ h[p].op \in ByNameOps) =>
            LET input_file_path == Join(UPLOAD_DIR, basename(h[p].file_name))
                empty   == h[p].file_name = <<>>
                missing == ~empty /\ ~Exists(h[p].pre, input_file_path)
                notfile == /\ ~empty
                           /\ Exists(h[p].pre, input_file_path)
                           /\ ~IsFile(h[p].pre, input_file_path)
            IN  /\ h[p].status = 404 <=> missing
                /\ h[p].status = 400 <=> (empty \/ notfile)

\* both cases in one state cannot be: the state of the directory case, a
\* file_name that resolves to a directory answered 400
C7_Witness ==
    \E p \in Procs :
        /\ Done(p) /\ h[p].op = "convert_by_name_get"
        /\ h[p].file_name # <<>>
        /\ Resolve(Join(UPLOAD_DIR, basename(h[p].file_name))) \in Dirs
        /\ h[p].status = 400

\* the answers to requests on Converted that follow a deletion: a download
\* of a deleted name is answered 404 and a listing does not contain it
AfterDelete ==
    /\ \A q \in deleted : q \notin DOMAIN files
    /\ \A p \in Procs :
          (Done(p) /\ h[p].op = "download" /\ Resolve(h[p].path) \in deleted)
          => h[p].status = 404
    /\ \A p \in Procs :
          (Done(p) /\ h[p].op = "list_converted") =>
              \A e \in h[p].listing : Entry(CONVERTED_DIR, e.filename) \notin deleted

C9_ConvertedName ==
    \A p \in Procs :
        (Done(p) /\ h[p].op \in ConversionOps /\ h[p].status = 200) =>
            LET original == IF h[p].op = "convert" THEN h[p].file_name
                            ELSE basename(h[p].file_name)
                expected == IF h[p].output_filename # <<>>
                            THEN h[p].output_filename \o MD
                            ELSE stem(original) \o <<"_">> \o h[p].unique_id \o MD
                written  == Resolve(Join(CONVERTED_DIR, expected))
            IN  /\ h[p].md_filename = expected
                /\ Len(h[p].unique_id) = 8
                /\ written \in DOMAIN files
                /\ files[written] = h[p].result.text_content
                /\ h[p].output_filename = <<>> => written \notin DOMAIN h[p].pre

\* C10: when DELETE requests for one name that is a file of Converted
\* overlap, none is answered 500, and once all are answered exactly one
\* got 200 and the others 404.
C10_ConcurrentDelete ==
    \A p \in Procs :
        (Done(p) /\ h[p].op = "delete" /\ IsFile(h[p].pre, h[p].path)) =>
            /\ h[p].status \in {200, 404}
            /\ \A q \in Procs :
                  (q # p /\ Done(q) /\ h[q].op = "delete"
                         /\ h[q].path = h[p].path /\ IsFile(h[q].pre, h[q].path))
                  => (h[p].status = 200) # (h[q].status = 200)

====
